---- MODULE Spec2Model ----
(***************************************************************************)
(* A model of the OMAP mailbox driver, arch/arm/plat-omap/mailbox.c.       *)
(*                                                                         *)
(* Two channels ("c0" and "c1") share one physical link, that is the       *)
(* process-wide counter mbox_configured and its mutex.  Messages travel on *)
(* channel "c0" only; "c1" is opened and closed but carries no traffic.    *)
(*                                                                         *)
(* Execution contexts run on an SMP machine: a sender, the transmit        *)
(* tasklet, the receive work item, the interrupt handler and a caller of   *)
(* omap_mbox_put each advance one step at a time and the steps interleave  *)
(* freely, except where the code itself excludes it: senders exclude each  *)
(* other by txq->lock, opens and closes exclude each other by              *)
(* mbox_configured_lock, a tasklet, a work item and an interrupt handler   *)
(* never run concurrently with themselves.                                 *)
(***************************************************************************)
EXTENDS Integers, Sequences, FiniteSets

(* ------------------------------ bounds -------------------------------- *)

\* Calls of omap_mbox_get over a run.
MaxGets == 3
\* Calls of omap_mbox_msg_send over a run.
MaxSend == 4
\* Messages the remote processor delivers over a run.
MaxArrive == 3
\* Capacity of a software queue, in messages (mbox_kfifo_size / sizeof(mbox_msg_t)).
KfifoMsgs == 2
\* Depth of the hardware FIFO in each direction, in messages.
HwFifoDepth == 1

\* Sends in the runs that carry traffic in both directions at once.
MaxDataSend == 3

Channels == {"c0", "c1"}
\* The registered names and one name that is not in the registry.
Names == Channels \cup {"nx"}
\* The channel that carries messages.
Traffic == "c0"
Senders == {1, 2}

VARIABLES
  ops,              \* the hardware operations: callbacks present, variant type
  mbox_configured,  \* static int mbox_configured
  use_count,        \* mbox->use_count, per channel
  txq, rxq,         \* mbox->txq / mbox->rxq, per channel: "null", "live", "freed"
  irq_req,          \* per channel: request_irq done and not yet free_irq
  pm_usage,         \* usage count of the parent device (pm_runtime get/put)
  pm_dropped,       \* a client has called omap_mbox_disable and not yet
                    \* omap_mbox_enable again
  ctx_saved,        \* the channels ops->save_ctx was called for by the last
                    \* mbox_runtime_suspend
  ctx_restored,     \* the channels ops->restore_ctx was called for by the
                    \* last mbox_runtime_resume
  last_cb,          \* the last hardware lifecycle callback and its result
  startup_calls,    \* history: calls of ops->startup
  shutdown_calls,   \* history: calls of ops->shutdown
  notifier,         \* per channel: notifier blocks registered
  holders,          \* per channel: handles returned by omap_mbox_get, not yet put
  gets,             \* history: calls of omap_mbox_get
  get_log,          \* the last omap_mbox_get: name, path taken, value returned
  fini_pc,          \* position of the caller inside omap_mbox_fini
  fini_mbox,        \* the channel that caller is closing
  fault,            \* history: a NULL or freed queue has been dereferenced
  get_failed,       \* history: some omap_mbox_startup did not run to its return 0
  \* ---- transmit side of channel "c0"
  txq_fifo,         \* txq->fifo: the messages queued, oldest first
  hw_tx_n,          \* messages held by the hardware transmit FIFO
  wire,             \* history: every mbox_fifo_write issued, in order
  tx_overrun,       \* history: a write was issued while the hardware FIFO was full
  accepted,         \* history: messages whose send returned 0, in order of return
  sends,            \* history: calls of omap_mbox_msg_send
  enq_count,        \* history: kfifo_in calls on txq
  snd_pc, snd_msg, snd_ret,   \* per sender: position, argument msg, local ret
  tl_sched,         \* TASKLET_STATE_SCHED of txq->tasklet
  tl_held,          \* the sender whose CPU the scheduled tasklet waits on for
                    \* spin_unlock_bh to enable bottom halves again; 0: none
  tl_pc, tl_msg,    \* position and local msg of the running tasklet
  \* ---- receive side of channel "c0"
  hw_rx,            \* messages latched in the hardware receive FIFO
  arrived,          \* history: messages that arrived in the hardware receive FIFO
  rxq_fifo,         \* rxq->fifo
  rxq_full,         \* rxq->full
  dispatched,       \* history: messages handed to the notifier chain
  wk_pending,       \* WORK_STRUCT_PENDING of rxq->work
  wk_pc, wk_msg,    \* position and local msg of the running work item
  stale,            \* a deferred task still refers to a queue that was freed
  \* ---- interrupts of channel "c0"
  irq_en,           \* the hardware's interrupt enable bits, IRQ_TX and IRQ_RX
  ih_pc             \* position of mbox_interrupt

lifeVars == <<ops, mbox_configured, use_count, txq, rxq, irq_req, pm_usage, pm_dropped,
                 ctx_saved, ctx_restored,
              last_cb, startup_calls, shutdown_calls, notifier, holders, gets,
              get_log, fini_pc, fini_mbox, fault, get_failed>>

txVars == <<txq_fifo, hw_tx_n, wire, tx_overrun, accepted, sends, enq_count,
            snd_pc, snd_msg, snd_ret, tl_sched, tl_held, tl_pc, tl_msg>>

rxVars == <<hw_rx, arrived, rxq_fifo, rxq_full, dispatched, wk_pending, wk_pc,
            wk_msg, stale>>

irqVars == <<irq_en, ih_pc>>

vars == <<lifeVars, txVars, rxVars, irqVars>>

NoLog == [name |-> "", path |-> "none", ret |-> "none"]

Init ==
  /\ ops \in [startup : BOOLEAN, shutdown : BOOLEAN, type : {1, 2}]
  /\ mbox_configured = 0
  /\ use_count = [c \in Channels |-> 0]
  /\ txq = [c \in Channels |-> "null"]
  /\ rxq = [c \in Channels |-> "null"]
  /\ irq_req = [c \in Channels |-> FALSE]
  /\ pm_usage = 0
  /\ pm_dropped = FALSE
  /\ ctx_saved = {}
  /\ ctx_restored = {}
  /\ last_cb = "none"
  /\ startup_calls = 0
  /\ shutdown_calls = 0
  /\ notifier = [c \in Channels |-> 0]
  /\ holders = [c \in Channels |-> 0]
  /\ gets = 0
  /\ get_log = NoLog
  /\ fini_pc = "idle"
  /\ fini_mbox = "c0"
  /\ fault = FALSE
  /\ get_failed = FALSE
  /\ txq_fifo = <<>>
  /\ hw_tx_n = 0
  /\ wire = <<>>
  /\ tx_overrun = FALSE
  /\ accepted = <<>>
  /\ sends = 0
  /\ enq_count = 0
  /\ snd_pc = [s \in Senders |-> "idle"]
  /\ snd_msg = [s \in Senders |-> 0]
  /\ snd_ret = [s \in Senders |-> "none"]
  /\ tl_sched = FALSE
  /\ tl_held = 0
  /\ tl_pc = "idle"
  /\ tl_msg = 0
  /\ hw_rx = <<>>
  /\ arrived = <<>>
  /\ rxq_fifo = <<>>
  /\ rxq_full = FALSE
  /\ dispatched = <<>>
  /\ wk_pending = FALSE
  /\ wk_pc = "idle"
  /\ wk_msg = 0
  /\ stale = FALSE
  /\ irq_en = [k \in {"TX", "RX"} |-> FALSE]
  /\ ih_pc = "idle"

(* ----------------------- channel lifecycle --------------------------- *)

AllSendersIdle == \A s \in Senders : snd_pc[s] = "idle"

\* A deferred task of channel c is pending or running.
DeferredBusy(c) ==
  c = Traffic /\ (wk_pending \/ wk_pc # "idle" \/ tl_sched \/ tl_pc # "idle")

(* Runtime PM of the parent device, lines 53-107.  pm_runtime_get_sync that
   takes the usage count from 0 to 1 calls mbox_runtime_resume,
   pm_runtime_put_sync that takes it from 1 to 0 calls mbox_runtime_suspend;
   each walks all children of the parent, that is every registered mailbox.
   ops->save_ctx and ops->restore_ctx are present. *)

\* omap_mbox_save_ctx calls ops->save_ctx for the child; it does not look
\* at use_count.
omap_mbox_save_ctx(c, uc) == TRUE

\* omap_mbox_restore_ctx returns early when use_count is 0 (line 72) and
\* calls ops->restore_ctx otherwise.
omap_mbox_restore_ctx(c, uc) == uc[c] # 0

\* device_for_each_child(dev, NULL, omap_mbox_save_ctx), line 100.
mbox_runtime_suspend(uc) == {c \in Channels : omap_mbox_save_ctx(c, uc)}

\* device_for_each_child(dev, NULL, omap_mbox_restore_ctx), line 90.
mbox_runtime_resume(uc) == {c \in Channels : omap_mbox_restore_ctx(c, uc)}

\* The path one call takes through omap_mbox_get and omap_mbox_startup.
\* st_ok: what ops->startup returns if it is called; fail_at: which of the
\* two queue allocations or request_irq fails if the call gets that far.
GetPath(name, st_ok, fail_at) ==
  IF name \notin Channels THEN "notfound"
  ELSE IF mbox_configured = 0 /\ ~ops.startup THEN "startup_absent"
  ELSE IF mbox_configured = 0 /\ ~st_ok THEN "startup_err"
  ELSE IF use_count[name] = 0 /\ fail_at # "none" THEN fail_at
  ELSE "ok"

\* ret of omap_mbox_startup at its return: it is initialised to 0 and the
\* branch taken when ops->startup is absent never assigns it.
StartupRet(path) ==
  CASE path \in {"ok", "startup_absent"} -> 0
    [] path \in {"txq", "rxq"} -> -12
    [] OTHER -> -1

\* An omap_mbox_get without the test of line 412.
GetRet_no_lookup_test(path) ==
  IF StartupRet(path) # 0 THEN "ENODEV" ELSE "mbox"

\* What omap_mbox_get returns.
GetRet(path) ==
  IF path = "notfound" THEN "ENOENT"
  ELSE IF StartupRet(path) # 0 THEN "ENODEV"
  ELSE "mbox"

\* if (!mbox_configured++): the first activation calls ops->startup.
NeedStartup(n) == n = 0

\* mbox_configured when omap_mbox_startup returns: the post-increment of
\* line 325 is undone on no path.
ConfiguredAfterStartup(n, path) == n + 1

\* mbox->use_count when omap_mbox_startup returns: incremented at line 334,
\* decremented again at line 368 on the three allocation failures.
UseCountAfterStartup(u, path) ==
  IF path = "ok" THEN u + 1 ELSE u

\* The queue pointers when omap_mbox_startup returns: mbox->txq is assigned
\* before the second allocation, mbox->rxq before request_irq, and the
\* failure labels free what was assigned without clearing the pointer.
TxqAfterStartup(q, first_open, path) ==
  IF ~first_open THEN q
  ELSE CASE path = "ok" -> "live"
         [] path \in {"rxq", "irq"} -> "freed"
         [] OTHER -> q

RxqAfterStartup(q, first_open, path) ==
  IF ~first_open THEN q
  ELSE CASE path = "ok" -> "live"
         [] path = "irq" -> "freed"
         [] OTHER -> q

\* fail_alloc_txq: ops->shutdown is called on every allocation failure.
ShutdownOnFail(path) == path \in {"txq", "rxq", "irq"} /\ ops.shutdown

omap_mbox_get(name, st_ok, fail_at) ==
  LET path == GetPath(name, st_ok, fail_at)
      started == path # "notfound" /\ NeedStartup(mbox_configured) /\ ops.startup
      first_open == path \in {"ok", "txq", "rxq", "irq"} /\ use_count[name] = 0
      fresh == first_open /\ path = "ok" /\ name = Traffic
  IN
  /\ gets < MaxGets
  /\ fini_pc = "idle"
  /\ ~pm_dropped
  /\ gets' = gets + 1
  /\ get_log' = [name |-> name, path |-> path, ret |-> GetRet(path)]
  /\ get_failed' = (get_failed \/ path \notin {"ok", "notfound"})
  /\ IF path = "notfound"
     THEN UNCHANGED <<mbox_configured, use_count, txq, rxq, irq_req, last_cb,
                      startup_calls, shutdown_calls, notifier, holders,
                      txq_fifo, rxq_fifo, rxq_full, tl_sched, tl_held, wk_pending,
                      stale, irq_en>>
     ELSE
       /\ mbox_configured' = ConfiguredAfterStartup(mbox_configured, path)
       /\ startup_calls' = IF started THEN startup_calls + 1 ELSE startup_calls
       /\ shutdown_calls' =
            IF ShutdownOnFail(path) THEN shutdown_calls + 1 ELSE shutdown_calls
       /\ last_cb' = IF ShutdownOnFail(path) THEN "shutdown"
                     ELSE IF started
                     THEN (IF path = "startup_err" THEN "startup_err"
                           ELSE "startup_ok")
                     ELSE last_cb
       /\ use_count' =
            [use_count EXCEPT ![name] = UseCountAfterStartup(@, path)]
       /\ txq' = [txq EXCEPT ![name] = TxqAfterStartup(@, first_open, path)]
       /\ rxq' = [rxq EXCEPT ![name] = RxqAfterStartup(@, first_open, path)]
       /\ irq_req' = [irq_req EXCEPT ![name] = @ \/ (first_open /\ path = "ok")]
       \* omap_mbox_get: the handle is returned and nb registered when ret = 0
       /\ holders' = [holders EXCEPT
                        ![name] = IF GetRet(path) = "mbox" THEN @ + 1 ELSE @]
       /\ notifier' = [notifier EXCEPT
                        ![name] = IF GetRet(path) = "mbox" THEN @ + 1 ELSE @]
       \* mbox_queue_alloc: kzalloc, kfifo_alloc, INIT_WORK, tasklet_init
       /\ txq_fifo' = IF fresh THEN <<>> ELSE txq_fifo
       /\ rxq_fifo' = IF fresh THEN <<>> ELSE rxq_fifo
       /\ rxq_full' = IF fresh THEN FALSE ELSE rxq_full
       /\ tl_sched' = IF fresh THEN FALSE ELSE tl_sched
       /\ tl_held' = IF fresh THEN 0 ELSE tl_held
       /\ wk_pending' = IF fresh THEN FALSE ELSE wk_pending
       /\ stale' = (stale \/ (fresh /\ DeferredBusy(name)))
       \* line 356: mbox->ops->enable_irq(mbox, IRQ_RX)
       /\ irq_en' = IF fresh THEN [irq_en EXCEPT !["RX"] = TRUE] ELSE irq_en
  \* omap_mbox_enable at line 323 and omap_mbox_disable at line 370 cancel
  \* on the failure paths; a successful startup keeps the reference.
  /\ pm_usage' = IF path = "ok" THEN pm_usage + 1 ELSE pm_usage
  \* line 323 resumes a suspended parent before use_count is touched; on
  \* the failure paths line 370 suspends it again, use_count as it was
  /\ ctx_restored' = IF path # "notfound" /\ pm_usage = 0
                     THEN mbox_runtime_resume(use_count) ELSE ctx_restored
  /\ ctx_saved' = IF path \notin {"ok", "notfound"} /\ pm_usage = 0
                  THEN mbox_runtime_suspend(use_count) ELSE ctx_saved
  /\ UNCHANGED pm_dropped
  /\ UNCHANGED <<ops, fini_pc, fini_mbox, fault>>
  /\ UNCHANGED <<hw_tx_n, wire, tx_overrun, accepted, sends, enq_count,
                 snd_pc, snd_msg, snd_ret, tl_pc, tl_msg>>
  /\ UNCHANGED <<hw_rx, arrived, dispatched, wk_pc, wk_msg, ih_pc>>

(* omap_mbox_put -> omap_mbox_fini, lines 375-395.  The caller holds
   mbox_configured_lock from the first step to the last. *)

\* flush_work_sync(&mbox->rxq->work) returns once the work item is neither
\* pending nor running.
FlushDone(c) == c # Traffic \/ (~wk_pending /\ wk_pc = "idle")

\* if (!--mbox->use_count)
LastClose(u) == u - 1 = 0

\* Lines 377-380 with a valid rxq: take the mutex, wait for the receive
\* work, drop one use.
fini_flush(c) ==
  /\ fini_pc = "idle"
  /\ ~pm_dropped
  /\ holders[c] > 0
  /\ c = Traffic => AllSendersIdle
  /\ rxq[c] = "live"
  /\ FlushDone(c)
  /\ use_count' = [use_count EXCEPT ![c] = @ - 1]
  /\ fini_pc' = IF LastClose(use_count[c]) THEN "free_irq" ELSE "tail"
  /\ fini_mbox' = c
  /\ UNCHANGED <<ops, mbox_configured, txq, rxq, irq_req, pm_usage, pm_dropped,
                 ctx_saved, ctx_restored, last_cb,
                 startup_calls, shutdown_calls, notifier, holders, gets,
                 get_log, fault, get_failed>>
  /\ UNCHANGED <<txVars, rxVars, irqVars>>

\* Line 379 with mbox->rxq NULL or dangling: the caller dereferences it.  A
\* NULL pointer stops the caller for good, the mutex still held; a dangling
\* one may do the same or let flush_work_sync return.
fini_bad_rxq(c, survives) ==
  /\ fini_pc = "idle"
  /\ ~pm_dropped
  /\ holders[c] > 0
  /\ c = Traffic => AllSendersIdle
  /\ rxq[c] # "live"
  /\ survives => rxq[c] = "freed"
  /\ fault' = TRUE
  /\ fini_mbox' = c
  /\ IF survives
     THEN /\ use_count' = [use_count EXCEPT ![c] = @ - 1]
          /\ fini_pc' = IF LastClose(use_count[c]) THEN "free_irq" ELSE "tail"
     ELSE /\ fini_pc' = "dead"
          /\ UNCHANGED use_count
  /\ UNCHANGED <<ops, mbox_configured, txq, rxq, irq_req, pm_usage, pm_dropped,
                 ctx_saved, ctx_restored, last_cb,
                 startup_calls, shutdown_calls, notifier, holders, gets,
                 get_log, get_failed>>
  /\ UNCHANGED <<txVars, rxVars, irqVars>>

\* Line 381: free_irq waits for a running handler, then removes it.
fini_free_irq ==
  /\ fini_pc = "free_irq"
  /\ fini_mbox = Traffic => ih_pc = "idle"
  /\ irq_req' = [irq_req EXCEPT ![fini_mbox] = FALSE]
  /\ fini_pc' = "kill"
  /\ UNCHANGED <<ops, mbox_configured, use_count, txq, rxq, pm_usage, pm_dropped,
                 ctx_saved, ctx_restored, last_cb,
                 startup_calls, shutdown_calls, notifier, holders, gets,
                 get_log, fini_mbox, fault, get_failed>>
  /\ UNCHANGED <<txVars, rxVars, irqVars>>

\* Line 382: tasklet_kill waits until the tasklet is neither scheduled nor
\* running.
fini_tasklet_kill ==
  /\ fini_pc = "kill"
  /\ fini_mbox = Traffic => (~tl_sched /\ tl_pc = "idle")
  /\ fini_pc' = "free"
  /\ UNCHANGED <<ops, mbox_configured, use_count, txq, rxq, irq_req, pm_usage, pm_dropped,
                 ctx_saved, ctx_restored,
                 last_cb, startup_calls, shutdown_calls, notifier, holders,
                 gets, get_log, fini_mbox, fault, get_failed>>
  /\ UNCHANGED <<txVars, rxVars, irqVars>>

\* Lines 383-384: both queues are freed, whatever still refers to them.
fini_queue_free ==
  LET c == fini_mbox IN
  /\ fini_pc = "free"
  /\ txq' = [txq EXCEPT ![c] = "freed"]
  /\ rxq' = [rxq EXCEPT ![c] = "freed"]
  /\ fini_pc' = "tail"
  /\ IF c = Traffic
     THEN /\ stale' = (stale \/ DeferredBusy(c))
          /\ txq_fifo' = <<>>
          /\ rxq_fifo' = <<>>
          /\ rxq_full' = FALSE
          /\ tl_sched' = FALSE
          /\ tl_held' = 0
          /\ tl_pc' = "idle"
          /\ tl_msg' = 0
          /\ wk_pending' = FALSE
          /\ wk_pc' = "idle"
          /\ wk_msg' = 0
     ELSE UNCHANGED <<stale, txq_fifo, rxq_fifo, rxq_full, tl_sched, tl_held, tl_pc,
                      tl_msg, wk_pending, wk_pc, wk_msg>>
  /\ UNCHANGED <<ops, mbox_configured, use_count, irq_req, pm_usage, pm_dropped,
                 ctx_saved, ctx_restored, last_cb,
                 startup_calls, shutdown_calls, notifier, holders, gets,
                 get_log, fini_mbox, fault, get_failed>>
  /\ UNCHANGED <<hw_tx_n, wire, tx_overrun, accepted, sends, enq_count,
                 snd_pc, snd_msg, snd_ret>>
  /\ UNCHANGED <<hw_rx, arrived, dispatched, irqVars>>

\* A variant of NeedShutdown: every close shuts the hardware down.
NeedShutdown_every_close(n) == TRUE

\* if (!--mbox_configured): the last deactivation calls ops->shutdown.
NeedShutdown(n) == n - 1 = 0

\* Lines 387-394, then the notifier is unregistered in omap_mbox_put.
fini_tail ==
  LET c == fini_mbox IN
  /\ fini_pc = "tail"
  /\ IF ops.shutdown
     THEN /\ mbox_configured' = mbox_configured - 1
          /\ IF NeedShutdown(mbox_configured)
             THEN /\ shutdown_calls' = shutdown_calls + 1
                  /\ last_cb' = "shutdown"
             ELSE UNCHANGED <<shutdown_calls, last_cb>>
     ELSE UNCHANGED <<mbox_configured, shutdown_calls, last_cb>>
  /\ pm_usage' = pm_usage - 1
  \* line 392: the last reference suspends the parent
  /\ ctx_saved' = IF pm_usage = 1
                  THEN mbox_runtime_suspend(use_count) ELSE ctx_saved
  /\ UNCHANGED <<pm_dropped, ctx_restored>>
  /\ fini_pc' = "idle"
  /\ holders' = [holders EXCEPT ![c] = @ - 1]
  /\ notifier' = [notifier EXCEPT ![c] = @ - 1]
  /\ UNCHANGED <<ops, use_count, txq, rxq, irq_req, startup_calls, gets,
                 get_log, fini_mbox, fault, get_failed>>
  /\ UNCHANGED <<txVars, rxVars, irqVars>>

\* A deferred task that was pending or running when its queue was freed
\* runs on: it reads freed memory.
stale_task_run ==
  /\ stale
  /\ stale' = FALSE
  /\ fault' = TRUE
  /\ UNCHANGED <<ops, mbox_configured, use_count, txq, rxq, irq_req, pm_usage, pm_dropped,
                 ctx_saved, ctx_restored,
                 last_cb, startup_calls, shutdown_calls, notifier, holders,
                 gets, get_log, fini_pc, fini_mbox, get_failed>>
  /\ UNCHANGED <<txVars, irqVars>>
  /\ UNCHANGED <<hw_rx, arrived, rxq_fifo, rxq_full, dispatched, wk_pending,
                 wk_pc, wk_msg>>

\* omap_mbox_disable called by the holder of a handle, lines 440-443:
\* pm_runtime_put_sync on the parent.
omap_mbox_disable(c) ==
  /\ holders[c] > 0
  /\ fini_pc = "idle"
  /\ ~pm_dropped
  /\ pm_usage > 0
  /\ pm_usage' = pm_usage - 1
  /\ pm_dropped' = TRUE
  /\ ctx_saved' = IF pm_usage = 1
                  THEN mbox_runtime_suspend(use_count) ELSE ctx_saved
  /\ UNCHANGED <<ops, mbox_configured, use_count, txq, rxq, irq_req,
                 ctx_restored, last_cb, startup_calls, shutdown_calls,
                 notifier, holders, gets, get_log, fini_pc, fini_mbox, fault,
                 get_failed>>
  /\ UNCHANGED <<txVars, rxVars, irqVars>>

\* omap_mbox_enable called by the same holder afterwards, lines 434-437:
\* pm_runtime_get_sync on the parent.
omap_mbox_enable(c) ==
  /\ holders[c] > 0
  /\ fini_pc = "idle"
  /\ pm_dropped
  /\ pm_usage' = pm_usage + 1
  /\ pm_dropped' = FALSE
  /\ ctx_restored' = IF pm_usage = 0
                     THEN mbox_runtime_resume(use_count) ELSE ctx_restored
  /\ UNCHANGED <<ops, mbox_configured, use_count, txq, rxq, irq_req,
                 ctx_saved, last_cb, startup_calls, shutdown_calls,
                 notifier, holders, gets, get_log, fini_pc, fini_mbox, fault,
                 get_failed>>
  /\ UNCHANGED <<txVars, rxVars, irqVars>>

omap_mbox_put ==
  \/ \E c \in Channels : fini_flush(c)
  \/ \E c \in Channels, survives \in BOOLEAN : fini_bad_rxq(c, survives)
  \/ fini_free_irq
  \/ fini_tasklet_kill
  \/ fini_queue_free
  \/ fini_tail

LifeNext ==
  \/ \E name \in Names, st_ok \in BOOLEAN,
        fail_at \in {"none", "txq", "rxq", "irq"} :
       omap_mbox_get(name, st_ok, fail_at)
  \/ omap_mbox_put
  \/ \E c \in Channels : omap_mbox_disable(c)
  \/ \E c \in Channels : omap_mbox_enable(c)

(* --------------------------- transmit path ---------------------------- *)

\* kfifo_avail, in messages.
kfifo_avail(q) == KfifoMsgs - Len(q)

\* kfifo_in of one message: nothing is copied when there is no room.
kfifo_in(q, msg) == IF kfifo_avail(q) >= 1 THEN Append(q, msg) ELSE q

\* mbox_fifo_full, on the transmit FIFO.
mbox_fifo_full == hw_tx_n >= HwFifoDepth

\* __mbox_poll_for_space: 0 when the FIFO has space, -1 when it is full.
\* On a TYPE2 mailbox the FIFO is sampled once; on the others it is sampled
\* up to 1000 times and the sample that ends the loop decides: one sample,
\* taken when the step runs.
mbox_poll_for_space == IF mbox_fifo_full THEN -1 ELSE 0

\* A send that takes a message whatever room the queue has.
SendAdmits_any_room(q) == kfifo_avail(q) >= 0

\* Line 166: the queue has room for one message.
SendAdmits(q) == kfifo_avail(q) >= 1

\* A send that writes directly whenever the poll succeeds, queue empty or not.
SendDirect_poll_only(q) == mbox_poll_for_space = 0

\* Line 171: the queue is empty and the poll for space succeeds.
SendDirect(q) == Len(q) = 0 /\ mbox_poll_for_space = 0

\* mbox_fifo_write: the write is issued whether or not the FIFO has room;
\* a FIFO that is full does not take the message.
FifoWritten(n) == IF n >= HwFifoDepth THEN n ELSE n + 1

\* Lines 164-169: spin_lock_bh, then the test of kfifo_avail.
send_lock(s) ==
  /\ snd_pc[s] = "idle"
  /\ AllSendersIdle
  /\ sends < MaxSend
  /\ holders[Traffic] > 0
  /\ txq[Traffic] = "live"
  /\ fini_pc = "idle" \/ fini_mbox # Traffic
  /\ sends' = sends + 1
  /\ snd_msg' = [snd_msg EXCEPT ![s] = sends + 1]
  /\ IF SendAdmits(txq_fifo)
     THEN /\ snd_ret' = [snd_ret EXCEPT ![s] = "0"]
          /\ snd_pc' = [snd_pc EXCEPT ![s] = "poll"]
     ELSE /\ snd_ret' = [snd_ret EXCEPT ![s] = "ENOMEM"]
          /\ snd_pc' = [snd_pc EXCEPT ![s] = "out"]
  /\ UNCHANGED <<txq_fifo, hw_tx_n, wire, tx_overrun, accepted, enq_count,
                 tl_sched, tl_held, tl_pc, tl_msg>>
  /\ UNCHANGED <<lifeVars, rxVars, irqVars>>

\* Line 161 on a handle whose txq is NULL or freed: mq->lock is not there.
send_bad_txq(s) ==
  /\ snd_pc[s] = "idle"
  /\ AllSendersIdle
  /\ sends < MaxSend
  /\ holders[Traffic] > 0
  /\ txq[Traffic] # "live"
  /\ fini_pc = "idle" \/ fini_mbox # Traffic
  /\ sends' = sends + 1
  /\ fault' = TRUE
  /\ UNCHANGED <<ops, mbox_configured, use_count, txq, rxq, irq_req, pm_usage, pm_dropped,
                 ctx_saved, ctx_restored,
                 last_cb, startup_calls, shutdown_calls, notifier, holders,
                 gets, get_log, fini_pc, fini_mbox, get_failed>>
  /\ UNCHANGED <<txq_fifo, hw_tx_n, wire, tx_overrun, accepted, enq_count,
                 snd_pc, snd_msg, snd_ret, tl_sched, tl_held, tl_pc, tl_msg>>
  /\ UNCHANGED <<rxVars, irqVars>>

\* Line 171: kfifo_is_empty and __mbox_poll_for_space.
send_poll(s) ==
  /\ snd_pc[s] = "poll"
  /\ snd_pc' = [snd_pc EXCEPT ![s] = IF SendDirect(txq_fifo) THEN "write"
                                     ELSE "enq"]
  /\ UNCHANGED <<txq_fifo, hw_tx_n, wire, tx_overrun, accepted, sends,
                 enq_count, snd_msg, snd_ret, tl_sched, tl_held, tl_pc, tl_msg>>
  /\ UNCHANGED <<lifeVars, rxVars, irqVars>>

\* Line 172: mbox_fifo_write(mbox, msg).
send_write(s) ==
  /\ snd_pc[s] = "write"
  /\ wire' = Append(wire, snd_msg[s])
  /\ tx_overrun' = (tx_overrun \/ mbox_fifo_full)
  /\ hw_tx_n' = FifoWritten(hw_tx_n)
  /\ snd_pc' = [snd_pc EXCEPT ![s] = "out"]
  /\ UNCHANGED <<txq_fifo, accepted, sends, enq_count, snd_msg, snd_ret,
                 tl_sched, tl_held, tl_pc, tl_msg>>
  /\ UNCHANGED <<lifeVars, rxVars, irqVars>>

\* Lines 176-179: kfifo_in and tasklet_schedule.
send_enqueue(s) ==
  /\ snd_pc[s] = "enq"
  /\ txq_fifo' = kfifo_in(txq_fifo, snd_msg[s])
  /\ enq_count' = enq_count + 1
  /\ tl_sched' = TRUE
  /\ tl_held' = IF tl_sched THEN tl_held ELSE s
  /\ snd_pc' = [snd_pc EXCEPT ![s] = "out"]
  /\ UNCHANGED <<hw_tx_n, wire, tx_overrun, accepted, sends, snd_msg, snd_ret,
                 tl_pc, tl_msg>>
  /\ UNCHANGED <<lifeVars, rxVars, irqVars>>

\* Lines 181-183: spin_unlock_bh and return ret.
send_out(s) ==
  /\ snd_pc[s] = "out"
  /\ accepted' = IF snd_ret[s] = "0" THEN Append(accepted, snd_msg[s])
                 ELSE accepted
  /\ snd_pc' = [snd_pc EXCEPT ![s] = "idle"]
  /\ snd_msg' = [snd_msg EXCEPT ![s] = 0]
  /\ snd_ret' = [snd_ret EXCEPT ![s] = "none"]
  /\ tl_held' = IF tl_held = s THEN 0 ELSE tl_held
  /\ UNCHANGED <<txq_fifo, hw_tx_n, wire, tx_overrun, sends, enq_count,
                 tl_sched, tl_pc, tl_msg>>
  /\ UNCHANGED <<lifeVars, rxVars, irqVars>>

omap_mbox_msg_send(s) ==
  \/ send_lock(s)
  \/ send_bad_txq(s)
  \/ send_poll(s)
  \/ send_write(s)
  \/ send_enqueue(s)
  \/ send_out(s)

(* mbox_tx_tasklet, lines 187-206 *)

\* The softirq takes the scheduled tasklet, clears TASKLET_STATE_SCHED and
\* calls mbox_tx_tasklet.  A tasklet scheduled by a send sits on that send's
\* CPU, where spin_lock_bh keeps bottom halves off until the send unlocks; a
\* tasklet scheduled by the interrupt handler may sit on any other CPU.
tasklet_start ==
  /\ tl_sched
  /\ tl_held = 0
  /\ tl_pc = "idle"
  /\ tl_sched' = FALSE
  /\ tl_pc' = "loop"
  /\ UNCHANGED <<txq_fifo, hw_tx_n, wire, tx_overrun, accepted, sends,
                 enq_count, snd_pc, snd_msg, snd_ret, tl_held, tl_msg>>
  /\ UNCHANGED <<lifeVars, rxVars, irqVars>>

\* Lines 194-201: the loop test, the poll and kfifo_out.
tasklet_loop ==
  /\ tl_pc = "loop"
  /\ IF Len(txq_fifo) = 0
     THEN /\ tl_pc' = "idle"
          /\ UNCHANGED <<txq_fifo, tl_msg>>
     ELSE IF mbox_poll_for_space # 0
     THEN /\ tl_pc' = "enable"
          /\ UNCHANGED <<txq_fifo, tl_msg>>
     ELSE /\ tl_msg' = Head(txq_fifo)
          /\ txq_fifo' = Tail(txq_fifo)
          /\ tl_pc' = "write"
  /\ UNCHANGED <<hw_tx_n, wire, tx_overrun, accepted, sends, enq_count,
                 snd_pc, snd_msg, snd_ret, tl_sched, tl_held>>
  /\ UNCHANGED <<lifeVars, rxVars, irqVars>>

\* A tasklet that breaks out of its loop without enabling IRQ_TX.
tasklet_enable_irq_left_out ==
  /\ tl_pc = "enable"
  /\ tl_pc' = "idle"
  /\ tl_msg' = 0
  /\ UNCHANGED <<txq_fifo, hw_tx_n, wire, tx_overrun, accepted, sends,
                 enq_count, snd_pc, snd_msg, snd_ret, tl_sched, tl_held>>
  /\ UNCHANGED <<lifeVars, rxVars, irqVars>>

\* Lines 196-197: omap_mbox_enable_irq(mbox, IRQ_TX); break.
tasklet_enable_irq ==
  /\ tl_pc = "enable"
  /\ irq_en' = [irq_en EXCEPT !["TX"] = TRUE]
  /\ tl_pc' = "idle"
  /\ tl_msg' = 0
  /\ UNCHANGED <<txq_fifo, hw_tx_n, wire, tx_overrun, accepted, sends,
                 enq_count, snd_pc, snd_msg, snd_ret, tl_sched, tl_held>>
  /\ UNCHANGED <<lifeVars, rxVars, ih_pc>>

\* Line 204: mbox_fifo_write(mbox, msg).
tasklet_write ==
  /\ tl_pc = "write"
  /\ wire' = Append(wire, tl_msg)
  /\ tx_overrun' = (tx_overrun \/ mbox_fifo_full)
  /\ hw_tx_n' = FifoWritten(hw_tx_n)
  /\ tl_pc' = "loop"
  /\ tl_msg' = 0
  /\ UNCHANGED <<txq_fifo, accepted, sends, enq_count, snd_pc, snd_msg,
                 snd_ret, tl_sched, tl_held>>
  /\ UNCHANGED <<lifeVars, rxVars, irqVars>>

mbox_tx_tasklet ==
  \/ tasklet_start
  \/ tasklet_loop
  \/ tasklet_enable_irq
  \/ tasklet_write

\* The remote processor takes one message out of the transmit FIFO.
hw_tx_drain ==
  /\ hw_tx_n > 0
  /\ hw_tx_n' = hw_tx_n - 1
  /\ UNCHANGED <<txq_fifo, wire, tx_overrun, accepted, sends, enq_count,
                 snd_pc, snd_msg, snd_ret, tl_sched, tl_held, tl_pc, tl_msg>>
  /\ UNCHANGED <<lifeVars, rxVars, irqVars>>

(* ----------------------- interrupt dispatch --------------------------- *)

\* A dispatcher that never sees the TX-ready condition.
is_irq_tx_never == FALSE

\* is_mbox_irq: the condition is pending and enabled.
is_irq_tx == irq_en["TX"] /\ ~mbox_fifo_full
is_irq_rx == irq_en["RX"] /\ hw_rx # <<>>

\* mbox_interrupt is entered, lines 271-279: the line is raised, the handler
\* is registered and not running.
irq_enter ==
  /\ irq_req[Traffic]
  /\ ih_pc = "idle"
  /\ is_irq_tx \/ is_irq_rx
  /\ ih_pc' = IF is_irq_tx THEN "tx_dis" ELSE "rx_loop"
  /\ UNCHANGED <<lifeVars, txVars, rxVars, irq_en>>

\* Lines 238-239: omap_mbox_disable_irq and ack_mbox_irq, IRQ_TX.
irq_tx_disable ==
  /\ ih_pc = "tx_dis"
  /\ irq_en' = [irq_en EXCEPT !["TX"] = FALSE]
  /\ ih_pc' = "tx_sched"
  /\ UNCHANGED <<lifeVars, txVars, rxVars>>

\* Line 240: tasklet_schedule; then line 278 decides on the RX handler.
irq_tx_schedule ==
  /\ ih_pc = "tx_sched"
  /\ tl_sched' = TRUE
  /\ tl_held' = IF tl_sched THEN tl_held ELSE 0
  /\ ih_pc' = IF is_irq_rx THEN "rx_loop" ELSE "idle"
  /\ UNCHANGED <<txq_fifo, hw_tx_n, wire, tx_overrun, accepted, sends,
                 enq_count, snd_pc, snd_msg, snd_ret, tl_pc, tl_msg>>
  /\ UNCHANGED <<lifeVars, rxVars, irq_en>>

mbox_tx_interrupt ==
  \/ irq_tx_disable
  \/ irq_tx_schedule

TxNext ==
  \/ \E s \in Senders : omap_mbox_msg_send(s)
  \/ mbox_tx_tasklet
  \/ hw_tx_drain
  \/ irq_enter
  \/ mbox_tx_interrupt

(* ---------------------------- receive path ---------------------------- *)

\* The remote processor puts one message into the receive FIFO.
hw_rx_arrive ==
  /\ Len(arrived) < MaxArrive
  /\ Len(hw_rx) < HwFifoDepth
  /\ hw_rx' = Append(hw_rx, Len(arrived) + 1)
  /\ arrived' = Append(arrived, Len(arrived) + 1)
  /\ UNCHANGED <<rxq_fifo, rxq_full, dispatched, wk_pending, wk_pc, wk_msg,
                 stale>>
  /\ UNCHANGED <<lifeVars, txVars, irqVars>>

\* A handler that does not test kfifo_avail before it reads the hardware.
RxRoom_not_tested(q) == TRUE

\* Line 250: the receive queue has room for one message.
RxRoom(q) == kfifo_avail(q) >= 1

\* A handler that loops on every type of mailbox.
OnePerInterrupt_never == FALSE

\* Line 261: a TYPE1 mailbox takes one message per interrupt.
OnePerInterrupt == ops.type = 1

\* Lines 249-263, one pass of the loop: the test of mbox_fifo_empty, the test
\* of kfifo_avail, mbox_fifo_read and kfifo_in.
irq_rx_loop ==
  /\ ih_pc = "rx_loop"
  /\ IF hw_rx = <<>>
     THEN /\ ih_pc' = "rx_ack"
          /\ UNCHANGED <<hw_rx, rxq_fifo>>
     ELSE IF ~RxRoom(rxq_fifo)
     THEN /\ ih_pc' = "rx_dis"
          /\ UNCHANGED <<hw_rx, rxq_fifo>>
     ELSE /\ rxq_fifo' = kfifo_in(rxq_fifo, Head(hw_rx))
          /\ hw_rx' = Tail(hw_rx)
          /\ ih_pc' = IF OnePerInterrupt THEN "rx_ack" ELSE "rx_loop"
  /\ UNCHANGED <<arrived, rxq_full, dispatched, wk_pending, wk_pc, wk_msg,
                 stale>>
  /\ UNCHANGED <<lifeVars, txVars, irq_en>>

\* A handler that goes to mq->full = true without disabling IRQ_RX.
irq_rx_disable_left_out ==
  /\ ih_pc = "rx_dis"
  /\ ih_pc' = "rx_full"
  /\ UNCHANGED <<lifeVars, txVars, rxVars, irq_en>>

\* Line 251: omap_mbox_disable_irq(mbox, IRQ_RX).
irq_rx_disable ==
  /\ ih_pc = "rx_dis"
  /\ irq_en' = [irq_en EXCEPT !["RX"] = FALSE]
  /\ ih_pc' = "rx_full"
  /\ UNCHANGED <<lifeVars, txVars, rxVars>>

\* Lines 252-253: mq->full = true; goto nomem.
irq_rx_set_full ==
  /\ ih_pc = "rx_full"
  /\ rxq_full' = TRUE
  /\ ih_pc' = "rx_sched"
  /\ UNCHANGED <<hw_rx, arrived, rxq_fifo, dispatched, wk_pending, wk_pc,
                 wk_msg, stale>>
  /\ UNCHANGED <<lifeVars, txVars, irq_en>>

\* Line 266: ack_mbox_irq(mbox, IRQ_RX).
irq_rx_ack ==
  /\ ih_pc = "rx_ack"
  /\ ih_pc' = "rx_sched"
  /\ UNCHANGED <<lifeVars, txVars, rxVars, irq_en>>

\* Line 268: schedule_work(&mbox->rxq->work).
irq_rx_schedule ==
  /\ ih_pc = "rx_sched"
  /\ wk_pending' = TRUE
  /\ ih_pc' = "idle"
  /\ UNCHANGED <<hw_rx, arrived, rxq_fifo, rxq_full, dispatched, wk_pc,
                 wk_msg, stale>>
  /\ UNCHANGED <<lifeVars, txVars, irq_en>>

mbox_rx_interrupt ==
  \/ irq_rx_loop
  \/ irq_rx_disable
  \/ irq_rx_set_full
  \/ irq_rx_ack
  \/ irq_rx_schedule

(* mbox_rx_work, lines 211-231 *)

\* A worker takes the pending work item, clears its pending bit and calls
\* mbox_rx_work.
work_start ==
  /\ wk_pending
  /\ wk_pc = "idle"
  /\ wk_pending' = FALSE
  /\ wk_pc' = "loop"
  /\ UNCHANGED <<hw_rx, arrived, rxq_fifo, rxq_full, dispatched, wk_msg,
                 stale>>
  /\ UNCHANGED <<lifeVars, txVars, irqVars>>

\* Line 218: the work item goes on while the queue holds a message.
WorkGoesOn(q) == Len(q) >= 1

\* Lines 218-219: the loop test and kfifo_out.
work_loop ==
  /\ wk_pc = "loop"
  /\ IF WorkGoesOn(rxq_fifo)
     THEN /\ wk_msg' = Head(rxq_fifo)
          /\ rxq_fifo' = Tail(rxq_fifo)
          /\ wk_pc' = "notify"
     ELSE /\ wk_pc' = "idle"
          /\ UNCHANGED <<wk_msg, rxq_fifo>>
  /\ UNCHANGED <<hw_rx, arrived, rxq_full, dispatched, wk_pending, stale>>
  /\ UNCHANGED <<lifeVars, txVars, irqVars>>

\* Lines 222-223: blocking_notifier_call_chain with the message.
work_notify ==
  /\ wk_pc = "notify"
  /\ dispatched' = Append(dispatched, wk_msg)
  /\ wk_pc' = "flag"
  /\ wk_msg' = 0
  /\ UNCHANGED <<hw_rx, arrived, rxq_fifo, rxq_full, wk_pending, stale>>
  /\ UNCHANGED <<lifeVars, txVars, irqVars>>

\* Lines 224-226 and 229: spin_lock_irq, the test of mq->full and its
\* clearing; the lock is released at once when the flag is not set.
work_flag ==
  /\ wk_pc = "flag"
  /\ IF rxq_full
     THEN /\ rxq_full' = FALSE
          /\ wk_pc' = "enable"
     ELSE /\ wk_pc' = "loop"
          /\ UNCHANGED rxq_full
  /\ UNCHANGED <<hw_rx, arrived, rxq_fifo, dispatched, wk_pending, wk_msg,
                 stale>>
  /\ UNCHANGED <<lifeVars, txVars, irqVars>>

\* Lines 227-229: omap_mbox_enable_irq(mq->mbox, IRQ_RX); spin_unlock_irq.
work_enable_irq ==
  /\ wk_pc = "enable"
  /\ irq_en' = [irq_en EXCEPT !["RX"] = TRUE]
  /\ wk_pc' = "loop"
  /\ UNCHANGED <<lifeVars, txVars, hw_rx, arrived, rxq_fifo, rxq_full,
                 dispatched, wk_pending, wk_msg, stale, ih_pc>>

mbox_rx_work ==
  \/ work_start
  \/ work_loop
  \/ work_notify
  \/ work_flag
  \/ work_enable_irq

RxPath ==
  \/ hw_rx_arrive
  \/ irq_enter
  \/ mbox_rx_interrupt
  \/ mbox_rx_work

RxNext ==
  \/ RxPath
  \/ stale_task_run

(* ------------------------------ locks -------------------------------- *)

\* txq->lock: spin_lock_bh at line 164, spin_unlock_bh at line 182.  The
\* senders between the two hold it; mbox_tx_tasklet never takes it.
TxqLockHolders == {s \in Senders : snd_pc[s] # "idle"}

\* A work item that takes rxq->lock before it calls the notifier chain.
RxqLockedStep_from_dispatch ==
  \/ wk_pc = "notify" /\ wk_pc' = "flag"
  \/ wk_pc = "flag" /\ wk_pc' \in {"enable", "loop"}
  \/ wk_pc = "enable" /\ wk_pc' = "loop"

\* rxq->lock: spin_lock_irq at line 224, spin_unlock_irq at line 229, the
\* only place that takes it.  The work item holds it while it tests and
\* clears mq->full and while it enables IRQ_RX; __mbox_rx_interrupt never
\* takes it.
RxqLockedStep ==
  \/ wk_pc = "flag" /\ wk_pc' \in {"enable", "loop"}
  \/ wk_pc = "enable" /\ wk_pc' = "loop"

\* Opens and closes of the channel that carries messages; ops->startup
\* succeeds when it is called and no allocation fails.
TrafficLife ==
  \/ omap_mbox_get(Traffic, TRUE, "none")
  \/ omap_mbox_put

Next == LifeNext \/ TxNext \/ RxNext

SpecLife == Init /\ [][LifeNext]_vars

SpecTx == Init /\ [][TrafficLife \/ TxNext]_vars

SpecRx == Init /\ [][TrafficLife \/ RxNext]_vars

\* The transmit path of a channel that is opened and stays open: a send that
\* was entered runs to its return, a scheduled tasklet runs to its end, a
\* raised interrupt is taken and handled, and the remote processor goes on
\* taking messages out of the hardware FIFO.
FairTx ==
  /\ Init
  /\ [][omap_mbox_get(Traffic, TRUE, "none") \/ TxNext]_vars
  /\ WF_vars(\E s \in Senders : send_poll(s) \/ send_write(s)
                                  \/ send_enqueue(s) \/ send_out(s))
  /\ WF_vars(mbox_tx_tasklet)
  /\ WF_vars(irq_enter)
  /\ WF_vars(mbox_tx_interrupt)
  /\ WF_vars(hw_tx_drain)

\* The receive path of a channel that is opened and stays open: an interrupt
\* that is raised is taken, a handler that was entered runs to its end, a
\* work item that is pending or running runs to its end.
FairRx ==
  /\ Init
  /\ [][omap_mbox_get(Traffic, TRUE, "none") \/ RxPath]_vars
  /\ WF_vars(irq_enter)
  /\ WF_vars(mbox_rx_interrupt)
  /\ WF_vars(mbox_rx_work)

\* The transmit path with at most MaxDataSend calls of omap_mbox_msg_send.
DataTx == TxNext /\ sends' <= MaxDataSend

\* Both directions of a channel that is opened and stays open.
SpecData ==
  Init /\ [][omap_mbox_get(Traffic, TRUE, "none") \/ DataTx \/ RxPath]_vars

Spec == Init /\ [][Next]_vars
(* ============================ the claims ============================== *)

InSeq(m, q) == \E i \in 1..Len(q) : q[i] = m

IsPrefix(a, b) ==
  /\ Len(a) <= Len(b)
  /\ \A i \in 1..Len(a) : a[i] = b[i]

(* ---- C1 ---- *)

\* C1 (no loss under receive backpressure): every message latched in the
\* hardware receive FIFO of the open channel is eventually handed to the
\* notifier chain, provided raised interrupts are taken and the receive
\* work item runs when it is pending.
C1_NoLossUnderBackpressure ==
  \A m \in 1..MaxArrive :
    (InSeq(m, arrived) /\ use_count[Traffic] > 0) ~> InSeq(m, dispatched)

(* ---- C2 ---- *)

\* C2 (receive FIFO order without loss or duplication): the messages handed
\* to the notifier chain are at every moment a prefix of the messages that
\* arrived in the hardware receive FIFO.
C2_RxFifoOrder == IsPrefix(dispatched, arrived)

(* ---- C3 ---- *)

\* C3 (transmit order): no message is written to the hardware FIFO twice,
\* and two messages whose sends both returned 0 are written in the order in
\* which the sends returned.
C3_TransmitOrder ==
  /\ \A i, j \in 1..Len(wire) : i < j => wire[i] # wire[j]
  /\ \A i, j \in 1..Len(wire) : \A a, b \in 1..Len(accepted) :
       (i < j /\ accepted[a] = wire[i] /\ accepted[b] = wire[j]) => a < b

(* ---- C4 ---- *)

SendEnters(s) == snd_pc[s] = "idle" /\ snd_pc'[s] # "idle"
SendReturns(s) == snd_pc[s] = "out" /\ snd_pc'[s] = "idle"
SendSteps(s) == snd_pc'[s] # snd_pc[s]

SendResultStep(s) ==
  /\ SendEnters(s) =>
       /\ snd_ret'[s] \in {"0", "ENOMEM"}
       /\ snd_ret'[s] = "ENOMEM" <=> Len(txq_fifo) >= KfifoMsgs
       /\ snd_ret'[s] = "ENOMEM" => snd_pc'[s] = "out"
  /\ (SendSteps(s) /\ (snd_ret[s] = "ENOMEM" \/ snd_ret'[s] = "ENOMEM")) =>
       UNCHANGED <<txq_fifo, hw_tx_n, wire, enq_count, tl_sched, tl_held, tl_pc>>
  /\ (SendSteps(s) /\ ~SendEnters(s)) => snd_ret'[s] \in {snd_ret[s], "none"}
  /\ (SendReturns(s) /\ snd_ret[s] = "0") =>
       /\ accepted' = Append(accepted, snd_msg[s])
       /\ \/ InSeq(snd_msg[s], wire)
          \/ InSeq(snd_msg[s], txq_fifo)
          \/ tl_msg = snd_msg[s]
  /\ (SendReturns(s) /\ snd_ret[s] # "0") =>
       /\ accepted' = accepted
       /\ ~InSeq(snd_msg[s], wire)
       /\ ~InSeq(snd_msg[s], txq_fifo)

\* C5 (QueueFull): a send ends with -ENOMEM exactly when the transmit queue
\* has no room for one message at the moment the send takes txq->lock; it
\* then goes straight to the unlock and leaves the queue, the hardware FIFO
\* and the tasklet's scheduling state as they are.  Every other send ends
\* with 0, its message written to the hardware or put into the queue.
C5_QueueFull == [][\A s \in Senders : SendResultStep(s)]_vars

\* A send is about to return -ENOMEM.
C5_Witness ==
  \E s \in Senders :
    /\ snd_pc[s] = "out"
    /\ snd_ret[s] = "ENOMEM"
    /\ Len(txq_fifo) = KfifoMsgs

(* ---- C6 ---- *)

FastPathStep(s) ==
  /\ (snd_pc[s] = "poll" /\ SendSteps(s)) =>
       /\ snd_pc'[s] \in {"write", "enq"}
       /\ snd_pc'[s] = "write" <=>
            (Len(txq_fifo) = 0 /\ hw_tx_n < HwFifoDepth)
  /\ (snd_pc[s] = "write" /\ SendSteps(s)) =>
       /\ wire' = Append(wire, snd_msg[s])
       /\ txq_fifo = <<>> /\ txq_fifo' = <<>>
       /\ UNCHANGED <<enq_count, tl_sched, tl_held>>
       /\ snd_ret'[s] = "0"
       /\ snd_pc'[s] = "out"
  /\ (snd_pc[s] = "enq" /\ SendSteps(s)) =>
       /\ txq_fifo' = Append(txq_fifo, snd_msg[s])
       /\ enq_count' = enq_count + 1
       /\ tl_sched'
       /\ wire' = wire
       /\ snd_ret'[s] = "0"
       /\ snd_pc'[s] = "out"

\* C6 (transmit fast path): a send that finds the transmit queue empty and
\* the hardware FIFO with space writes its message to the hardware, returns
\* 0 and neither enqueues nor schedules the tasklet; a send that finds the
\* queue non-empty or the FIFO full enqueues its message and schedules the
\* tasklet.
C6_FastPath == [][\A s \in Senders : FastPathStep(s)]_vars

\* A send has written directly: nothing was ever enqueued, the tasklet is
\* not scheduled.
C6_Witness ==
  \E s \in Senders :
    /\ snd_pc[s] = "out"
    /\ snd_ret[s] = "0"
    /\ wire = <<snd_msg[s]>>
    /\ enq_count = 0
    /\ txq_fifo = <<>>
    /\ ~tl_sched /\ tl_pc = "idle"

(* ---- C7 ---- *)

\* Both lifecycle callbacks exist and every omap_mbox_startup so far ran to
\* its return 0: the opens of the claim are successful ones.
OnlySuccessfulOpens == ops.startup /\ ops.shutdown /\ ~get_failed

ActivationStep ==
  OnlySuccessfulOpens' =>
    /\ startup_calls' \in {startup_calls, startup_calls + 1}
    /\ shutdown_calls' \in {shutdown_calls, shutdown_calls + 1}
    /\ startup_calls' # startup_calls <=>
         (mbox_configured = 0 /\ mbox_configured' = 1)
    /\ shutdown_calls' # shutdown_calls <=>
         (mbox_configured = 1 /\ mbox_configured' = 0)
    /\ startup_calls' - shutdown_calls' =
         (IF mbox_configured' > 0 THEN 1 ELSE 0)

\* C7 (exclusive activation): while every open is a successful one,
\* ops->startup is called by exactly the open that takes mbox_configured
\* from 0 to 1 and ops->shutdown by exactly the close that takes it from 1
\* to 0, once each, and neither is called in between: the calls of startup
\* exceed the calls of shutdown by one while the link is activated and
\* equal them while it is not.
C7_ExclusiveActivation == [][ActivationStep]_vars

\* Both channels were opened and closed again, with one startup and one
\* shutdown between them.
C7_Witness ==
  /\ OnlySuccessfulOpens
  /\ gets = 2
  /\ txq["c0"] = "freed" /\ txq["c1"] = "freed"
  /\ fini_pc = "idle"
  /\ mbox_configured = 0
  /\ startup_calls = 1 /\ shutdown_calls = 1

(* ---- C8 ---- *)

QueuesAllocated(c) == txq[c] = "live" /\ rxq[c] = "live"

\* C8 (use-count correctness): whenever no open or close is in progress, the
\* use_count of every channel equals the number of handles that
\* omap_mbox_get returned and omap_mbox_put has not taken back, and both
\* queues of the channel are allocated if and only if its use_count > 0.
C8_UseCountCorrect ==
  fini_pc = "idle" =>
    \A c \in Channels :
      /\ use_count[c] = holders[c]
      /\ QueuesAllocated(c) <=> use_count[c] > 0

(* ---- C9 ---- *)

StartupFailed ==
  gets' = gets + 1 /\ get_log'.path \in {"startup_absent", "startup_err"}

\* C9 (clean rollback on startup failure): an open whose ops->startup is
\* absent or returns an error returns DeviceError (-ENODEV) and leaves the
\* queues, use_count, the power-domain reference, the activation count and
\* the handles as they were, with the hardware not activated.
C9_CleanRollback ==
  [][StartupFailed =>
       /\ get_log'.ret = "ENODEV"
       /\ UNCHANGED <<mbox_configured, use_count, txq, rxq, pm_usage,
                      holders, notifier>>
       /\ last_cb' # "startup_ok"]_vars

(* ---- C10 ---- *)

\* C10 (no use-after-free on close): when omap_mbox_fini is about to free
\* the queues no deferred task of the channel is pending or running, and no
\* deferred task is left referring to a freed queue.
C10_NoUseAfterFree ==
  /\ (fini_pc = "free" /\ fini_mbox = Traffic) => ~DeferredBusy(Traffic)
  /\ ~stale

(* ---- C11 ---- *)

UnknownNameStep == gets' = gets + 1 /\ get_log'.name \notin Channels

\* C11 (open of an unknown name): omap_mbox_get on a name that is not in
\* mboxes returns NotFound (-ENOENT) and changes nothing: no ops callback is
\* called, no power-domain reference is taken, and mbox_configured, every
\* use_count, the queues, the interrupt registration and the notifier
\* chains are as before.
C11_UnknownName ==
  [][UnknownNameStep =>
       /\ get_log'.ret = "ENOENT"
       /\ UNCHANGED <<mbox_configured, use_count, txq, rxq, irq_req,
                      pm_usage, last_cb, startup_calls, shutdown_calls,
                      notifier, holders, irq_en, ops>>]_vars

\* An unknown name was looked up while a channel was open.
C11_Witness ==
  /\ get_log.name = "nx"
  /\ get_log.ret = "ENOENT"
  /\ use_count["c0"] = 1
  /\ mbox_configured >= 1

(* ---- C12 ---- *)

\* A step of the data path (not mbox_queue_alloc or mbox_queue_free) that
\* changes the content of a software queue or the full flag.
DataPathStep == gets' = gets /\ fini_pc' = fini_pc
TxQueueOp == DataPathStep /\ txq_fifo' # txq_fifo
RxQueueOp == DataPathStep /\ rxq_fifo' # rxq_fifo
FullFlagOp == DataPathStep /\ rxq_full' # rxq_full

\* C12 (queue mutual exclusion): every kfifo_in and kfifo_out on a software
\* queue and every change of rxq->full is made by a context that holds the
\* lock of that queue.
C12_QueueMutex ==
  [][/\ TxQueueOp => \E s \in TxqLockHolders : snd_pc'[s] # snd_pc[s]
     /\ (RxQueueOp \/ FullFlagOp) => RxqLockedStep]_vars

(* ---- C13 ---- *)

\* A sender that holds txq->lock polls the hardware FIFO (line 171) or writes
\* it (line 172).
HwAccessUnderTxqLock ==
  \E s \in TxqLockHolders :
    snd_pc[s] \in {"poll", "write"} /\ snd_pc'[s] # snd_pc[s]

\* The holder of rxq->lock enables or disables an interrupt.
HwAccessUnderRxqLock == RxqLockedStep /\ irq_en' # irq_en

\* The notifier chain is called by a context that holds a queue lock.
DispatchUnderLock ==
  /\ dispatched' # dispatched
  /\ RxqLockedStep \/ \E s \in TxqLockHolders : snd_pc'[s] # snd_pc[s]

\* C13 (lock hold scope), as stated: no context that holds a queue lock polls
\* or writes the hardware FIFO, enables or disables an interrupt, or calls
\* the observers.
C13_LockScope ==
  [][~HwAccessUnderTxqLock /\ ~HwAccessUnderRxqLock /\ ~DispatchUnderLock]_vars

\* C13 as amended: no queue lock is held while the observers are called;
\* the holder of rxq->lock does nothing but test and clear mq->full and
\* enable IRQ_RX; the holder of txq->lock polls and writes the hardware
\* FIFO or enqueues and schedules the tasklet, and never enables or
\* disables an interrupt.
C13_LockScopeAmended ==
  [][/\ ~DispatchUnderLock
     /\ RxqLockedStep =>
          /\ UNCHANGED <<rxq_fifo, hw_rx, dispatched, wk_pending, txVars>>
          /\ irq_en' # irq_en => irq_en' = [irq_en EXCEPT !["RX"] = TRUE]
     /\ \A s \in TxqLockHolders :
          snd_pc'[s] # snd_pc[s] =>
            UNCHANGED <<irq_en, rxq_fifo, rxq_full, dispatched, hw_rx>>]_vars

\* The work item holds rxq->lock and is about to enable IRQ_RX after a
\* dispatch, while a sender holds txq->lock and is about to write the
\* hardware FIFO.
C13_Witness ==
  /\ wk_pc = "enable"
  /\ Len(dispatched) >= 1
  /\ \E s \in Senders : snd_pc[s] = "write"

(* ---- C14 ---- *)

\* The channel is open, no open or close is in progress, the handler is not
\* between omap_mbox_disable_irq (line 251) and mq->full = true (line 252)
\* and the work item is not between mq->full = false (line 226) and
\* omap_mbox_enable_irq (line 227).
RxSettled ==
  /\ use_count[Traffic] > 0
  /\ rxq[Traffic] = "live"
  /\ fini_pc = "idle"
  /\ ih_pc # "rx_full"
  /\ wk_pc # "enable"

RxMaskStep == irq_en["RX"] /\ ~irq_en'["RX"]
RxUnmaskStep == ~irq_en["RX"] /\ irq_en'["RX"] /\ gets' = gets

\* C14 (RX mask/flag consistency): in a settled state of an open channel
\* IRQ_RX is disabled exactly when rxq->full is set; IRQ_RX is disabled only
\* by the handler that found no room in the queue, and enabled again only by
\* the work item, after a dequeue and a dispatch, on finding the flag set.
C14_RxMaskFlag ==
  /\ [](RxSettled => (~irq_en["RX"] <=> rxq_full))
  /\ [][/\ RxMaskStep => ih_pc = "rx_dis"
        /\ RxUnmaskStep => (wk_pc = "enable" /\ Len(dispatched) >= 1)]_vars

\* The interrupt was masked with the flag set, and the work item has since
\* cleared the flag and enabled the interrupt again.
C14_Witness ==
  /\ RxSettled
  /\ irq_en["RX"] /\ ~rxq_full
  /\ Len(dispatched) >= 1
  /\ Len(arrived) = MaxArrive
  /\ wk_pc = "loop"
  /\ hw_rx # <<>>

(* ---- C15 ---- *)

\* The channel is open and no send, tasklet run, TX handler, open or close
\* is in progress.
TxQuiet ==
  /\ use_count[Traffic] > 0
  /\ txq[Traffic] = "live"
  /\ fini_pc = "idle"
  /\ AllSendersIdle
  /\ tl_pc = "idle"
  /\ ih_pc \notin {"tx_dis", "tx_sched"}

TaskletEnds == tl_pc # "idle" /\ tl_pc' = "idle" /\ fini_pc' = fini_pc

\* C15 (no stranded transmit messages): with the transmit path quiet and
\* the software queue non-empty, the tasklet is scheduled or IRQ_TX is
\* enabled; a run of the tasklet ends only on an empty queue or by enabling
\* IRQ_TX, and the TX handler disables IRQ_TX and then schedules the
\* tasklet.
C15_NoStrandedTx ==
  /\ []((TxQuiet /\ Len(txq_fifo) > 0) => (tl_sched \/ irq_en["TX"]))
  /\ [][/\ TaskletEnds => (Len(txq_fifo) = 0 \/ irq_en'["TX"])
        /\ (ih_pc = "tx_dis" /\ ih_pc' # ih_pc) =>
             (~irq_en'["TX"] /\ ih_pc' = "tx_sched")
        /\ (ih_pc = "tx_sched" /\ ih_pc' # ih_pc) => tl_sched']_vars

\* A message waits in the software queue with the hardware FIFO full; the
\* tasklet has given up and left IRQ_TX enabled.
C15_Witness ==
  /\ TxQuiet
  /\ Len(txq_fifo) > 0
  /\ mbox_fifo_full
  /\ ~tl_sched
  /\ irq_en["TX"]

(* ---- C16 ---- *)

\* The handler takes a message out of the hardware receive FIFO.
RxMoves == Len(hw_rx') < Len(hw_rx)

\* C16 (RX handler protocol): an invocation of __mbox_rx_interrupt enters
\* its loop once; it leaves the loop either to the acknowledge (the FIFO is
\* empty, or a TYPE1 mailbox has given one message) or to the queue-full
\* path, which disables IRQ_RX, sets the flag and skips the acknowledge;
\* both ways end in schedule_work; on a TYPE1 mailbox the step that moves a
\* message leaves the loop.
C16_RxHandlerProtocol ==
  [][/\ (ih_pc' = "rx_loop" /\ ih_pc # "rx_loop") =>
          ih_pc \in {"idle", "tx_sched"}
     /\ (ih_pc = "rx_loop" /\ ih_pc' # "rx_loop") =>
          ih_pc' \in {"rx_ack", "rx_dis"}
     /\ (ih_pc' = "rx_ack" /\ ih_pc # "rx_ack") =>
          (ih_pc = "rx_loop" /\ (hw_rx' = <<>> \/ ops.type = 1))
     /\ (ih_pc' = "rx_dis" /\ ih_pc # "rx_dis") =>
          (ih_pc = "rx_loop" /\ hw_rx # <<>> /\ ~RxMoves)
     /\ (ih_pc = "rx_dis" /\ ih_pc' # "rx_dis") =>
          (ih_pc' = "rx_full" /\ ~irq_en'["RX"])
     /\ (ih_pc = "rx_full" /\ ih_pc' # "rx_full") =>
          (ih_pc' = "rx_sched" /\ rxq_full')
     /\ (ih_pc = "rx_ack" /\ ih_pc' # "rx_ack") => ih_pc' = "rx_sched"
     /\ (ih_pc \in {"rx_loop", "rx_ack", "rx_dis", "rx_full", "rx_sched"}
          /\ ih_pc' = "idle") => (ih_pc = "rx_sched" /\ wk_pending')
     /\ RxMoves =>
          /\ ih_pc = "rx_loop"
          /\ Len(hw_rx') = Len(hw_rx) - 1
          /\ rxq_fifo' = Append(rxq_fifo, Head(hw_rx))
          /\ ops.type = 1 => ih_pc' = "rx_ack"]_vars

\* A TYPE1 handler has moved one message and is about to schedule the work
\* item, with another message in the hardware FIFO and room in the queue.
C16_Witness ==
  /\ ops.type = 1
  /\ ih_pc = "rx_sched"
  /\ ~rxq_full
  /\ hw_rx # <<>>
  /\ Len(rxq_fifo) >= 1
  /\ RxRoom(rxq_fifo)

(* ---- C17 ---- *)

\* kfifo_in by a sender (line 176) and by the handler (line 258).
TxEnqueueStep(s) == snd_pc[s] = "enq" /\ snd_pc'[s] # "enq"
RxEnqueueStep == ih_pc = "rx_loop" /\ RxMoves

\* kfifo_out by the tasklet (line 200) and by the work item (line 219).
TxDequeueStep == tl_pc = "loop" /\ tl_pc' = "write"
RxDequeueStep == wk_pc = "loop" /\ wk_pc' = "notify"

\* C17 (whole-message queue consistency): each software queue holds at most
\* its capacity in whole messages; every kfifo_in of a sender or of the
\* handler stores its message, and every kfifo_out of the tasklet or of the
\* work item takes one message out, the oldest (no WARN_ON on len fires).
C17_WholeMessages ==
  /\ [](Len(txq_fifo) <= KfifoMsgs /\ Len(rxq_fifo) <= KfifoMsgs)
  /\ [][/\ \A s \in Senders :
             TxEnqueueStep(s) => txq_fifo' = Append(txq_fifo, snd_msg[s])
        /\ RxEnqueueStep => rxq_fifo' = Append(rxq_fifo, Head(hw_rx))
        /\ TxDequeueStep => txq_fifo = <<tl_msg'>> \o txq_fifo'
        /\ RxDequeueStep => rxq_fifo = <<wk_msg'>> \o rxq_fifo']_vars

\* Both software queues are at capacity at once after enqueues and
\* dequeues on both.
C17_Witness ==
  /\ Len(txq_fifo) = KfifoMsgs
  /\ Len(rxq_fifo) = KfifoMsgs
  /\ Len(dispatched) >= 1
  /\ enq_count = KfifoMsgs

(* ---- C18 ---- *)

\* mbox_runtime_suspend runs in this step: the usage count of the parent
\* goes from 1 to 0, or a failing omap_mbox_startup takes it from 0 to 1 and
\* back.
SuspendStep ==
  /\ pm_usage' = 0
  /\ \/ pm_usage = 1
     \/ /\ pm_usage = 0
        /\ gets' = gets + 1
        /\ get_log'.path \notin {"ok", "notfound"}

\* mbox_runtime_resume runs in this step.
ResumeStep ==
  /\ pm_usage = 0
  /\ \/ pm_usage' = 1
     \/ gets' = gets + 1 /\ get_log'.path \notin {"ok", "notfound"}

InUse(uc) == {c \in Channels : uc[c] > 0}

\* C18 (suspend/resume symmetry): a suspend calls ops->save_ctx for exactly
\* the channels with use_count > 0, and a resume calls ops->restore_ctx for
\* exactly the channels with use_count > 0, the set the suspend before it
\* saved.
C18_SuspendResumeSymmetry ==
  [][/\ SuspendStep => ctx_saved' = InUse(use_count')
     /\ ResumeStep =>
          /\ ctx_restored' = InUse(use_count)
          /\ ctx_restored' = ctx_saved]_vars

(* ---- C19 ---- *)

\* mbox_fifo_write is called in this step.
FifoWriteStep == Len(wire') > Len(wire)

\* C19 (no write to a full FIFO): every mbox_fifo_write, by a send or by the
\* tasklet, finds space in the hardware transmit FIFO: no other write has
\* filled it since the poll that allowed this one.
C19_NoWriteWhenFull == [][FifoWriteStep => ~mbox_fifo_full]_vars

(* ---- C20 ---- *)

RECURSIVE SumUseCount(_)
SumUseCount(S) ==
  IF S = {} THEN 0
  ELSE LET c == CHOOSE x \in S : TRUE
       IN use_count[c] + SumUseCount(S \ {c})

\* C20 (an open channel has activated hardware): with no open or close in
\* progress and some channel in use, the last ops callback was a
\* successful startup, not a shutdown, and mbox_configured is the sum of
\* use_count over all channels.
C20_OpenImpliesActivated ==
  (fini_pc = "idle" /\ \E c \in Channels : use_count[c] > 0) =>
    /\ last_cb = "startup_ok"
    /\ mbox_configured = SumUseCount(Channels)

====
